---- MODULE Spec2Model ----
(***************************************************************************)
(* A model of the configuration loader (src/config/settings.py) and of the *)
(* file service (src/services/file_service.py) of the Z.AI vision server.  *)
(*                                                                         *)
(* Representation.  A Python str is a sequence of one-character strings,   *)
(* so that str.lower(), `in` and str.startswith() are computed and not     *)
(* assumed.  An Optional value is a sequence of length 0 (None) or 1.      *)
(* A URL of the settings is a sequence of tokens in which every trailing   *)
(* "/" is a token of its own, so that rstrip('/') is computed.             *)
(***************************************************************************)
EXTENDS Integers, Sequences, FiniteSets, TLC

VARIABLES
    env,      \* os.environ, the variables the Settings fields read
    cache,    \* the lru_cache of get_settings: None or Some(Settings)
    created,  \* number of Settings instances constructed so far (object ids)
    first,    \* history: the first return of get_settings, None before:
              \*   Some([value |-> the Settings, env |-> the environment then])
    svc,      \* the FileService instance: None or Some([settings |-> ...])
    world,    \* what a source refers to: the path's entry, the URL's HEAD outcome
    ret,      \* the outcome of the last call
    obs       \* history: MIME types reported for world.src by the last calls

vars == <<env, cache, created, first, svc, world, ret, obs>>

None == <<>>
Some(x) == <<x>>

\* ------------------------------------------------------------------ bounds

\* Python object identities handed out to Settings instances.
MaxCreated == 2
\* Longest file content held as real bytes.
MaxLen == 3

\* ----------------------------------------------------------------- strings

UpperCase == <<"A","B","C","D","E","F","G","H","I","J","K","L","M",
               "N","O","P","Q","R","S","T","U","V","W","X","Y","Z">>
LowerCase == <<"a","b","c","d","e","f","g","h","i","j","k","l","m",
               "n","o","p","q","r","s","t","u","v","w","x","y","z">>

lower_char(c) ==
    IF \E i \in 1..26 : UpperCase[i] = c
    THEN LowerCase[CHOOSE i \in 1..26 : UpperCase[i] = c]
    ELSE c

\* str.lower()
lower(s) == [i \in 1..Len(s) |-> lower_char(s[i])]

\* sub in s
contains(s, sub) ==
    \E i \in 1..(Len(s) - Len(sub) + 1) : SubSeq(s, i, i + Len(sub) - 1) = sub

\* s.startswith(p)
startswith(s, p) == Len(s) >= Len(p) /\ SubSeq(s, 1, Len(p)) = p

\* s.rstrip('/') on a token sequence whose trailing slashes are single tokens
RECURSIVE rstrip_slash(_)
rstrip_slash(s) ==
    IF Len(s) > 0 /\ s[Len(s)] = "/"
    THEN rstrip_slash(SubSeq(s, 1, Len(s) - 1))
    ELSE s

\* ---------------------------------------------------------------- Settings

ZAI_URL   == <<"https://api.z.ai/api/paas/v4", "/">>
ZHIPU_URL == <<"https://open.bigmodel.cn/api/paas/v4", "/">>

\* Field defaults of class Settings.  temperature is held in tenths.
DefaultBaseUrl      == ZHIPU_URL
DefaultPlatformMode == "AUTO"
DefaultTemperature  == 8
DefaultMaxImageMb   == 5
DefaultMaxVideoMb   == 8
DefaultLogLevel     == "INFO"
DefaultTimeout      == 300
DefaultRateLimit    == 50

PlatformLiteral == {"ZAI", "ZHIPU", "AUTO"}

\* Environment values the model draws from.
ApiKeys ==
    { <<"s","k","-","1">>,
      <<"x","G","l","M","7">>,
      <<"Z","h","i","P","U">>,
      <<"g","l","-","m">>,
      <<>> }
EnvApiKey   == {None} \cup {Some(k) : k \in ApiKeys}
EnvPlatform == {None, Some("AUTO"), Some("ZAI"), Some("ZHIPU"), Some("auto")}
EnvBaseUrl  == {None, Some(<<"https://proxy.example/v1", "/", "/">>)}
EnvTemp     == {None, Some(30)}
EnvImageMb  == {None, Some(1)}
EnvVideoMb  == {None, Some(2)}

\* The environment of a process started with nothing set.
EmptyEnv ==
    [Z_AI_API_KEY |-> None, PLATFORM_MODE |-> None, Z_AI_BASE_URL |-> None,
     TEMPERATURE |-> None, MAX_IMAGE_SIZE_MB |-> None, MAX_VIDEO_SIZE_MB |-> None]

\* Field(default=d, env=NAME): the environment's value when set, else d.
Field(v, d) == IF v = None THEN d ELSE v[1]

Return(v, io) == [kind |-> "return", err |-> "none", msg |-> "none",
                  value |-> v, io |-> io]
Raise(e, m, io) == [kind |-> "raise", err |-> e, msg |-> m,
                    value |-> None, io |-> io]

\* Settings._detect_platform
detect_platform(s) ==
    IF s.api_key = None \/ s.api_key[1] = <<>>
    THEN "ZHIPU"
    ELSE IF contains(lower(s.api_key[1]), <<"z","h","i","p","u">>)
            \/ contains(lower(s.api_key[1]), <<"g","l","m">>)
         THEN "ZHIPU"
         ELSE "ZAI"

\* Settings.__post_init__, as a function of the instance: the instance it
\* leaves, or the ValueError it raises.  The class derives from pydantic's
\* BaseSettings, a BaseModel and not a dataclass: BaseModel.__init__ validates
\* the fields and sets them, and calls no __post_init__ hook, so nothing in
\* the program invokes this method (see SettingsNew).
post_init(s) ==
    LET mode == IF s.platform_mode = "AUTO" THEN detect_platform(s)
                ELSE s.platform_mode
        url  == IF mode = "ZAI" THEN ZAI_URL
                ELSE IF mode = "ZHIPU" THEN ZHIPU_URL
                ELSE s.base_url
    IN  IF s.api_key = None \/ s.api_key[1] = <<>>
        THEN Raise("ValueError", "Z_AI_API_KEY environment variable is required", {})
        ELSE Return([s EXCEPT !.platform_mode = mode, !.base_url = url,
                              !.fastmcp_settings =
                                  Some([log_level |-> DefaultLogLevel,
                                        timeout |-> DefaultTimeout,
                                        max_concurrent_requests |-> DefaultRateLimit])],
                    {})

\* Settings(): pydantic reads each field from the environment, or takes its
\* default, and checks the Literal and the ge/le constraints; a field that
\* fails raises pydantic's ValidationError.  id is the new object's identity.
SettingsNew(e, id) ==
    LET s == [id                |-> id,
              api_key           |-> e.Z_AI_API_KEY,
              base_url          |-> Field(e.Z_AI_BASE_URL, DefaultBaseUrl),
              platform_mode     |-> Field(e.PLATFORM_MODE, DefaultPlatformMode),
              temperature       |-> Field(e.TEMPERATURE, DefaultTemperature),
              max_image_size_mb |-> Field(e.MAX_IMAGE_SIZE_MB, DefaultMaxImageMb),
              max_video_size_mb |-> Field(e.MAX_VIDEO_SIZE_MB, DefaultMaxVideoMb),
              fastmcp_settings  |-> None]
    IN  IF /\ s.platform_mode \in PlatformLiteral
           /\ s.temperature >= 0 /\ s.temperature <= 20
           /\ s.max_image_size_mb >= 1 /\ s.max_image_size_mb <= 100
           /\ s.max_video_size_mb >= 1 /\ s.max_video_size_mb <= 500
        THEN Return(s, {"environ"})
        ELSE Raise("pydantic.ValidationError", "field", {"environ"})

\* Settings.api_endpoint
api_endpoint(s) == rstrip_slash(s.base_url) \o <<"/chat/completions">>

\* get_settings without its @lru_cache(): every call constructs Settings().
get_settings_uncached(c, e, id) == SettingsNew(e, id)

\* get_settings under @lru_cache(): the cached value when there is one,
\* else Settings(), cached only when it returns (lru_cache stores no
\* exception).
get_settings(c, e, id) ==
    IF c # None THEN Return(c[1], {}) ELSE SettingsNew(e, id)

\* ------------------------------------------------------------- FileService

supported_image_formats ==
    { <<".","p","n","g">>, <<".","j","p","g">>, <<".","j","p","e","g">> }
supported_video_formats ==
    { <<".","m","p","4">>, <<".","m","o","v">>, <<".","a","v","i">>,
      <<".","w","e","b","m">>, <<".","m","4","v">> }

\* A source string, held as the parts urlparse and Path take from it:
\* scheme and netloc (urlparse lowers the scheme), whether urlparse raises
\* ValueError on it (an unbalanced "[" in the netloc), and Path(s).suffix.
Suffixes ==
    supported_image_formats \cup supported_video_formats \cup
    { <<".","P","N","G">>, <<".","J","p","g">>, <<".","M","P","4">>,
      <<".","M","o","v">>, <<".","g","i","f">>, <<>> }

LocalSources ==
    [scheme : {""}, netloc : {""}, invalid : {FALSE}, suffix : Suffixes]
    \cup
    { [scheme |-> "ftp",  netloc |-> "x", invalid |-> FALSE, suffix |-> <<".","p","n","g">>],
      [scheme |-> "http", netloc |-> "",  invalid |-> FALSE, suffix |-> <<".","p","n","g">>],
      [scheme |-> "http", netloc |-> "[x", invalid |-> TRUE, suffix |-> <<".","m","p","4">>] }

UrlSources ==
    { [scheme |-> "https", netloc |-> "example.com", invalid |-> FALSE,
       suffix |-> <<".","p","n","g">>],
      [scheme |-> "http", netloc |-> "example.com", invalid |-> FALSE,
       suffix |-> <<".","m","p","4">>] }

\* urllib.parse.urlparse
urlparse(source) ==
    IF source.invalid
    THEN Raise("ValueError", "Invalid IPv6 URL", {})
    ELSE Return([scheme |-> source.scheme, netloc |-> source.netloc], {})

\* FileService.is_url
is_url(source) ==
    LET result == urlparse(source)
    IN  IF result.kind = "raise"
        THEN FALSE
        ELSE result.value.scheme \in {"http", "https"} /\ result.value.netloc # ""

\* What a path refers to.  st_size is what stat() reports and data what
\* read() returns.  A file of up to MaxLen bytes is held whole; for a larger
\* one the model keeps a short stand-in for its bytes (BigData): the code
\* never relates the two.
MB == 1024 * 1024
Bytes == {0, 77, 255}
RECURSIVE SeqsUpTo(_)
SeqsUpTo(n) ==
    IF n = 0 THEN {<<>>}
    ELSE LET prev == SeqsUpTo(n - 1)
         IN  prev \cup {Append(s, b) : s \in {p \in prev : Len(p) = n - 1}, b \in Bytes}
Contents == SeqsUpTo(MaxLen)
BigData == <<77, 255, 0, 77>>
BigSizes == {m * MB + d : m \in {1, 2, 5, 8}, d \in {0, 1}}

Missing == [kind |-> "missing", st_size |-> 0, data |-> <<>>]
Entries ==
    {Missing, [kind |-> "dir", st_size |-> 4096, data |-> <<>>]}
    \cup {[kind |-> "file", st_size |-> Len(d), data |-> d] : d \in Contents}
    \cup {[kind |-> "file", st_size |-> n, data |-> BigData] : n \in BigSizes}

\* The outcome of client.head(url): a transport error (an httpx.HTTPError),
\* another exception (httpx.InvalidURL is none), or a response with a status
\* and an optional content-type header.
ContentTypes ==
    { <<"i","m","a","g","e","/","p","n","g">>,
      <<"I","m","a","g","e","/","P","N","G">>,
      <<"v","i","d","e","o","/","m","p","4">>,
      <<"t","e","x","t","/","h","t","m","l">> }
NoHead == [kind |-> "transport", status |-> 0, ctype |-> None]
HeadOutcomes ==
    {NoHead, [kind |-> "other", status |-> 0, ctype |-> None]}
    \cup [kind : {"response"}, status : {200, 204, 301, 404, 500},
          ctype : {None} \cup {Some(c) : c \in ContentTypes}]

Worlds ==
    [src : LocalSources, entry : Entries, head : {NoHead}]
    \cup [src : UrlSources, entry : {Missing}, head : HeadOutcomes]

\* _validate_image_file with the format check moved before the size check.
validate_image_file_format_first(w, settings) ==
    IF w.entry.kind = "missing"
    THEN Raise("FileNotFoundError", "Image file not found", {"exists"})
    ELSE IF w.entry.kind # "file"
    THEN Raise("ValidationError", "Path is not a file", {"exists", "is_file"})
    ELSE IF lower(w.src.suffix) \notin supported_image_formats
    THEN Raise("ValidationError", "Unsupported image format",
               {"exists", "is_file"})
    ELSE IF w.entry.st_size > settings.max_image_size_mb * MB
    THEN Raise("ValidationError", "Image file too large",
               {"exists", "is_file", "stat"})
    ELSE Return(None, {"exists", "is_file", "stat"})

\* FileService._validate_image_file.  st_size / (1024 * 1024) is exact in a
\* float (a division by a power of two), so size_mb > limit is decided here
\* on the bytes: st_size > limit * 1024 * 1024.
validate_image_file(w, settings) ==
    IF w.entry.kind = "missing"
    THEN Raise("FileNotFoundError", "Image file not found", {"exists"})
    ELSE IF w.entry.kind # "file"
    THEN Raise("ValidationError", "Path is not a file", {"exists", "is_file"})
    ELSE IF w.entry.st_size > settings.max_image_size_mb * MB
    THEN Raise("ValidationError", "Image file too large",
               {"exists", "is_file", "stat"})
    ELSE IF lower(w.src.suffix) \notin supported_image_formats
    THEN Raise("ValidationError", "Unsupported image format",
               {"exists", "is_file", "stat"})
    ELSE Return(None, {"exists", "is_file", "stat"})

\* FileService._validate_video_file
validate_video_file(w, settings) ==
    IF w.entry.kind = "missing"
    THEN Raise("FileNotFoundError", "Video file not found", {"exists"})
    ELSE IF w.entry.kind # "file"
    THEN Raise("ValidationError", "Path is not a file", {"exists", "is_file"})
    ELSE IF w.entry.st_size > settings.max_video_size_mb * MB
    THEN Raise("ValidationError", "Video file too large",
               {"exists", "is_file", "stat"})
    ELSE IF lower(w.src.suffix) \notin supported_video_formats
    THEN Raise("ValidationError", "Unsupported video format",
               {"exists", "is_file", "stat"})
    ELSE Return(None, {"exists", "is_file", "stat"})

\* client.head(url) followed by response.raise_for_status(): the exception
\* raised, or the response.  raise_for_status raises httpx.HTTPStatusError,
\* an httpx.HTTPError, unless the status is 2xx (the client follows no
\* redirect by default, so a 3xx answer reaches it).
head_checked(h) ==
    IF h.kind = "transport" THEN Raise("httpx.HTTPError", "transport", {"head"})
    ELSE IF h.kind = "other" THEN Raise("Exception", "other", {"head"})
    ELSE IF ~(h.status >= 200 /\ h.status <= 299)
    THEN Raise("httpx.HTTPError", "status", {"head"})
    ELSE Return(h, {"head"})

\* The try body of _validate_image_url / _validate_video_url: the exception
\* that leaves it, or None.  prefix is "image/" or "video/".
url_try_body(h, prefix, msg) ==
    LET response == head_checked(h)
    IN  IF response.kind = "raise" THEN response
        ELSE LET content_type == lower(Field(response.value.ctype, <<>>))
             IN  IF ~startswith(content_type, prefix)
                 THEN Raise("ValidationError", msg, {"head"})
                 ELSE Return(None, {"head"})

\* The except clauses of _validate_image_url / _validate_video_url: an
\* httpx.HTTPError becomes a NetworkError, and so does any other Exception,
\* the ValidationError of the try body included.
url_except(r, what) ==
    IF r.kind = "return" THEN r
    ELSE IF r.err = "httpx.HTTPError"
    THEN Raise("NetworkError", <<"Cannot access URL", what>>, r.io)
    ELSE Raise("NetworkError", <<"Network error validating URL", what>>, r.io)

\* FileService._validate_image_url
validate_image_url(w) ==
    url_except(url_try_body(w.head, <<"i","m","a","g","e","/">>,
                            "URL does not point to an image"), "image")

\* FileService._validate_video_url
validate_video_url(w) ==
    url_except(url_try_body(w.head, <<"v","i","d","e","o","/">>,
                            "URL does not point to a video"), "video")

\* FileService.validate_image_source
validate_image_source(w, settings) ==
    IF is_url(w.src) THEN validate_image_url(w)
    ELSE validate_image_file(w, settings)

\* FileService.validate_video_source
validate_video_source(w, settings) ==
    IF is_url(w.src) THEN validate_video_url(w)
    ELSE validate_video_file(w, settings)

\* The two dicts of _get_mime_type and the .get with its default.
mime_types_get(ext, is_video) ==
    IF is_video
    THEN CASE ext = <<".","m","p","4">>     -> "video/mp4"
           [] ext = <<".","a","v","i">>     -> "video/x-msvideo"
           [] ext = <<".","m","o","v">>     -> "video/quicktime"
           [] ext = <<".","w","e","b","m">> -> "video/webm"
           [] ext = <<".","m","4","v">>     -> "video/x-m4v"
           [] OTHER                         -> "video/mp4"
    ELSE CASE ext = <<".","p","n","g">>     -> "image/png"
           [] ext = <<".","j","p","g">>     -> "image/jpeg"
           [] ext = <<".","j","p","e","g">> -> "image/jpeg"
           [] OTHER                         -> "image/png"

\* _get_mime_type without its extension.lower().
get_mime_type_no_lower(extension, is_video) ==
    mime_types_get(extension, is_video)

\* FileService._get_mime_type
get_mime_type(extension, is_video) ==
    mime_types_get(lower(extension), is_video)

\* base64.b64encode: three bytes become four characters of the alphabet, a
\* last group of one or two bytes is padded with "=".
B64Alphabet ==
    <<"A","B","C","D","E","F","G","H","I","J","K","L","M","N","O","P",
      "Q","R","S","T","U","V","W","X","Y","Z","a","b","c","d","e","f",
      "g","h","i","j","k","l","m","n","o","p","q","r","s","t","u","v",
      "w","x","y","z","0","1","2","3","4","5","6","7","8","9","+","/">>

RECURSIVE b64encode(_)
b64encode(b) ==
    IF Len(b) = 0 THEN <<>>
    ELSE IF Len(b) = 1
    THEN <<B64Alphabet[(b[1] \div 4) + 1],
           B64Alphabet[((b[1] % 4) * 16) + 1], "=", "=">>
    ELSE IF Len(b) = 2
    THEN <<B64Alphabet[(b[1] \div 4) + 1],
           B64Alphabet[((b[1] % 4) * 16 + b[2] \div 16) + 1],
           B64Alphabet[((b[2] % 16) * 4) + 1], "=">>
    ELSE <<B64Alphabet[(b[1] \div 4) + 1],
           B64Alphabet[((b[1] % 4) * 16 + b[2] \div 16) + 1],
           B64Alphabet[((b[2] % 16) * 4 + b[3] \div 64) + 1],
           B64Alphabet[(b[3] % 64) + 1]>>
         \o b64encode(SubSeq(b, 4, Len(b)))

\* The data URL of encode_image_to_base64 / encode_video_to_base64.
data_url(mime_type, base64_data) ==
    <<"data:", mime_type, ";base64,">> \o base64_data

\* encode_image_to_base64 on a local path: validate, read, encode.
encode_image_file(w, settings) ==
    LET v == validate_image_file(w, settings)
    IN  IF v.kind = "raise" THEN v
        ELSE Return(data_url(get_mime_type(w.src.suffix, FALSE),
                             b64encode(w.entry.data)),
                    v.io \cup {"read"})

\* encode_image_to_base64 validating a URL before it passes it through.
encode_image_url_validated(w, settings) ==
    IF is_url(w.src)
    THEN LET v == validate_image_url(w)
         IN  IF v.kind = "raise" THEN v ELSE Return(w.src, v.io)
    ELSE encode_image_file(w, settings)

\* FileService.encode_image_to_base64
encode_image_to_base64(w, settings) ==
    IF is_url(w.src) THEN Return(w.src, {})
    ELSE encode_image_file(w, settings)

\* encode_video_to_base64 on a local path: validate, read, encode.
encode_video_file(w, settings) ==
    LET v == validate_video_file(w, settings)
    IN  IF v.kind = "raise" THEN v
        ELSE Return(data_url(get_mime_type(w.src.suffix, TRUE),
                             b64encode(w.entry.data)),
                    v.io \cup {"read"})

\* FileService.encode_video_to_base64
encode_video_to_base64(w, settings) ==
    IF is_url(w.src) THEN Return(w.src, {})
    ELSE encode_video_file(w, settings)

\* get_file_info records.  A record keeps the keys the dict has: "error"
\* only in the two failure records, "size_mb" and "extension" only for a
\* local path that exists.  size_mb, a float, is held as the pair
\* <<whole megabytes, remaining bytes>>; error, str(e), as the exception's
\* message.

\* The URL branch of get_file_info: any Exception of the HEAD request or of
\* raise_for_status is caught.
url_info(w) ==
    LET response == head_checked(w.head)
    IN  IF response.kind = "return"
        THEN Return([source |-> w.src, type |-> "url", size |-> None,
                     content_type |-> response.value.ctype,
                     accessible |-> TRUE], {"head"})
        ELSE Return([source |-> w.src, type |-> "url", size |-> None,
                     content_type |-> None, accessible |-> FALSE,
                     error |-> response.msg], {"head"})

\* The record of a local path that exists.
stat_info(w) ==
    Return([source |-> w.src, type |-> "file",
            size |-> Some(w.entry.st_size),
            size_mb |-> <<w.entry.st_size \div MB, w.entry.st_size % MB>>,
            content_type |->
                Some(get_mime_type(w.src.suffix,
                                   w.src.suffix \in supported_video_formats)),
            accessible |-> TRUE, extension |-> w.src.suffix],
           {"exists", "stat"})

\* The local branch of get_file_info without its path.exists() test:
\* path.stat() raises the built-in FileNotFoundError on a missing path.
path_info_no_exists(w) ==
    IF w.entry.kind = "missing"
    THEN Raise("builtins.FileNotFoundError", "No such file or directory", {"stat"})
    ELSE stat_info(w)

\* The local branch of get_file_info.
path_info(w) ==
    IF w.entry.kind = "missing"
    THEN Return([source |-> w.src, type |-> "file", size |-> None,
                 content_type |-> None, accessible |-> FALSE,
                 error |-> "File not found"], {"exists"})
    ELSE stat_info(w)

\* FileService.get_file_info
get_file_info(w) ==
    IF is_url(w.src) THEN url_info(w) ELSE path_info(w)

\* ----------------------------------------------------------------- actions

Call(op, r) == [op |-> op, res |-> r]
NoCall == Call("none", Return(None, {}))
NoObs == [info |-> "none", image |-> "none", video |-> "none"]
IdleWorld == [src |-> CHOOSE s \in UrlSources : s.scheme = "https",
              entry |-> Missing, head |-> NoHead]

\* A change of the process environment between calls (os.environ is
\* writable, and the launcher sets it before the first call).
SetEnv ==
    /\ \/ \E v \in EnvApiKey   : env' = [env EXCEPT !.Z_AI_API_KEY = v]
       \/ \E v \in EnvPlatform : env' = [env EXCEPT !.PLATFORM_MODE = v]
       \/ \E v \in EnvBaseUrl  : env' = [env EXCEPT !.Z_AI_BASE_URL = v]
       \/ \E v \in EnvTemp     : env' = [env EXCEPT !.TEMPERATURE = v]
    /\ env' # env
    /\ UNCHANGED <<cache, created, first, svc, world, ret, obs>>

\* The effect of one call of get_settings() with outcome r on the cache.
Cached(r) ==
    /\ cache' = IF r.kind = "return" THEN Some(r.value) ELSE cache
    /\ created' = IF r.kind = "return" /\ "environ" \in r.io
                  THEN created + 1 ELSE created
    /\ first' = IF first = None /\ r.kind = "return"
                THEN Some([value |-> r.value, env |-> env]) ELSE first

\* A call of get_settings().
GetSettings ==
    /\ created < MaxCreated
    /\ LET r == get_settings(cache, env, created + 1)
       IN  /\ Cached(r)
           /\ ret' = Call("get_settings", r)
    /\ UNCHANGED <<env, svc, world, obs>>

\* FileService(): __init__ keeps what get_settings() returns; an exception
\* of get_settings leaves no instance.
NewFileService ==
    /\ created < MaxCreated
    /\ LET r == get_settings(cache, env, created + 1)
       IN  /\ Cached(r)
           /\ svc' = IF r.kind = "return" THEN Some([settings |-> r.value]) ELSE svc
           /\ ret' = Call("FileService", r)
    /\ UNCHANGED <<env, world, obs>>

ValidateImageSource ==
    /\ svc # None
    /\ ret' = Call("validate_image_source",
                   validate_image_source(world, svc[1].settings))
    /\ UNCHANGED <<env, cache, created, first, svc, world, obs>>

ValidateVideoSource ==
    /\ svc # None
    /\ ret' = Call("validate_video_source",
                   validate_video_source(world, svc[1].settings))
    /\ UNCHANGED <<env, cache, created, first, svc, world, obs>>

EncodeImageToBase64 ==
    /\ svc # None
    /\ LET r == encode_image_to_base64(world, svc[1].settings)
       IN  /\ ret' = Call("encode_image_to_base64", r)
           /\ obs' = IF "read" \in r.io THEN [obs EXCEPT !.image = r.value[2]]
                     ELSE obs
    /\ UNCHANGED <<env, cache, created, first, svc, world>>

EncodeVideoToBase64 ==
    /\ svc # None
    /\ LET r == encode_video_to_base64(world, svc[1].settings)
       IN  /\ ret' = Call("encode_video_to_base64", r)
           /\ obs' = IF "read" \in r.io THEN [obs EXCEPT !.video = r.value[2]]
                     ELSE obs
    /\ UNCHANGED <<env, cache, created, first, svc, world>>

GetFileInfo ==
    /\ svc # None
    /\ LET r == get_file_info(world)
       IN  /\ ret' = Call("get_file_info", r)
           /\ obs' = IF r.kind = "return" /\ r.value.type = "file"
                        /\ r.value.accessible
                     THEN [obs EXCEPT !.info = r.value.content_type[1]]
                     ELSE obs
    /\ UNCHANGED <<env, cache, created, first, svc, world>>

\* ---------------------------------------------------------- specifications

\* The settings loader: a process started with an empty environment, whose
\* environment changes between the calls of get_settings and FileService().
Init ==
    /\ env = EmptyEnv
    /\ cache = None
    /\ created = 0
    /\ first = None
    /\ svc = None
    /\ world = IdleWorld
    /\ ret = NoCall
    /\ obs = NoObs

Next == SetEnv \/ GetSettings \/ NewFileService

Spec == Init /\ [][Next]_vars

\* The file service: constructed in an environment that sets the API key and
\* any of the size ceilings, and called on one source, a local path with
\* what it refers to or a URL with what its server answers.
FileInit ==
    /\ \E i \in EnvImageMb, v \in EnvVideoMb :
          env = [EmptyEnv EXCEPT !.Z_AI_API_KEY = Some(<<"s","k","-","1">>),
                                 !.MAX_IMAGE_SIZE_MB = i,
                                 !.MAX_VIDEO_SIZE_MB = v]
    /\ cache = Some(get_settings(None, env, 1).value)
    /\ created = 1
    /\ first = Some([value |-> cache[1], env |-> env])
    /\ svc = Some([settings |-> cache[1]])
    /\ world \in Worlds
    /\ ret = NoCall
    /\ obs = NoObs

FileNext ==
    \/ ValidateImageSource
    \/ ValidateVideoSource
    \/ EncodeImageToBase64
    \/ EncodeVideoToBase64
    \/ GetFileInfo

FileSpec == FileInit /\ [][FileNext]_vars

\* ------------------------------------------------------------------ claims

Settings_ == svc[1].settings
IsLocalCall == ret.op # "none" /\ ~is_url(world.src)
IsUrlCall == ret.op # "none" /\ is_url(world.src)

\* The outcome the order existence, regular file, size, extension gives.
LocalOutcome(limit_mb, formats, too_large, unsupported) ==
    LET e == world.entry
        r == ret.res
    IN  /\ e.kind = "missing" =>
              r.kind = "raise" /\ r.err = "FileNotFoundError"
        /\ e.kind = "dir" =>
              r.kind = "raise" /\ r.err = "ValidationError"
              /\ r.msg = "Path is not a file"
        /\ (e.kind = "file" /\ e.st_size > limit_mb * 1048576) =>
              r.kind = "raise" /\ r.err = "ValidationError" /\ r.msg = too_large
        /\ (e.kind = "file" /\ e.st_size <= limit_mb * 1048576
               /\ lower(world.src.suffix) \notin formats) =>
              r.kind = "raise" /\ r.err = "ValidationError" /\ r.msg = unsupported
        /\ r.kind = "return" <=>
              (e.kind = "file" /\ e.st_size <= limit_mb * 1048576
                  /\ lower(world.src.suffix) \in formats)

\* C1: on a local source, validate_image_source and validate_video_source
\* report the first failing check in the order existence (FileNotFound),
\* regular file (Validation), size strictly above the ceiling (Validation,
\* also when the extension is unsupported too), case-folded extension
\* (Validation), and return only when all four pass.
C1_LocalValidationOrder ==
    /\ (IsLocalCall /\ ret.op = "validate_image_source") =>
           LocalOutcome(Settings_.max_image_size_mb, supported_image_formats,
                        "Image file too large", "Unsupported image format")
    /\ (IsLocalCall /\ ret.op = "validate_video_source") =>
           LocalOutcome(Settings_.max_video_size_mb, supported_video_formats,
                        "Video file too large", "Unsupported video format")

\* C1's case: an image over the ceiling whose extension is unsupported too
\* was validated and the size was reported.
C1_Witness ==
    /\ IsLocalCall /\ ret.op = "validate_image_source"
    /\ world.entry.kind = "file"
    /\ world.entry.st_size = Settings_.max_image_size_mb * 1048576 + 1
    /\ lower(world.src.suffix) \notin supported_image_formats
    /\ ret.res.msg = "Image file too large"

HeadOk ==
    world.head.kind = "response"
    /\ world.head.status >= 200 /\ world.head.status <= 299

\* The content-type header, case-folded, "" when absent.
HeadType == lower(Field(world.head.ctype, <<>>))

UrlOutcome(prefix) ==
    LET r == ret.res
    IN  /\ ~HeadOk => r.kind = "raise" /\ r.err = "NetworkError"
        /\ (HeadOk /\ ~startswith(HeadType, prefix)) =>
               r.kind = "raise" /\ r.err = "ValidationError"
        /\ r.kind = "return" <=> (HeadOk /\ startswith(HeadType, prefix))

\* C2: on a URL source, validation fails with a Network error when the HEAD
\* request has a transport error or a non-2xx status, with a Validation
\* error (not a Network error) when the status is 2xx and the content type
\* lacks the "image/" (or "video/") prefix, and succeeds otherwise.
C2_UrlValidationErrors ==
    /\ (IsUrlCall /\ ret.op = "validate_image_source") =>
           UrlOutcome(<<"i","m","a","g","e","/">>)
    /\ (IsUrlCall /\ ret.op = "validate_video_source") =>
           UrlOutcome(<<"v","i","d","e","o","/">>)

C4_EncodeUrlPassThrough ==
    (IsUrlCall /\ ret.op \in {"encode_image_to_base64", "encode_video_to_base64"}) =>
        /\ ret.res.kind = "return"
        /\ ret.res.value = world.src
        /\ ret.res.io = {}

\* C4's case: an image URL whose server cannot be reached was encoded.
C4_Witness ==
    /\ IsUrlCall /\ ret.op = "encode_image_to_base64"
    /\ world.head.kind = "transport"
    /\ ret.res.kind = "return"

\* The MIME type the claim names for a case-folded extension.
MimeTable(e) ==
    CASE e = <<".","p","n","g">>     -> "image/png"
      [] e = <<".","j","p","g">>     -> "image/jpeg"
      [] e = <<".","j","p","e","g">> -> "image/jpeg"
      [] e = <<".","m","p","4">>     -> "video/mp4"
      [] e = <<".","a","v","i">>     -> "video/x-msvideo"
      [] e = <<".","m","o","v">>     -> "video/quicktime"
      [] e = <<".","w","e","b","m">> -> "video/webm"
      [] e = <<".","m","4","v">>     -> "video/x-m4v"

\* base64 decoding, the inverse the claim's round trip is checked with.
B64Index(c) == (CHOOSE i \in 1..64 : B64Alphabet[i] = c) - 1

RECURSIVE b64decode(_)
b64decode(s) ==
    IF Len(s) < 4 THEN <<>>
    ELSE LET a == B64Index(s[1])
             b == B64Index(s[2])
         IN  IF s[3] = "=" THEN <<a * 4 + b \div 16>>
             ELSE LET c == B64Index(s[3])
                  IN  IF s[4] = "="
                      THEN <<a * 4 + b \div 16, (b % 16) * 16 + c \div 4>>
                      ELSE <<a * 4 + b \div 16, (b % 16) * 16 + c \div 4,
                             (c % 4) * 64 + B64Index(s[4])>>
                           \o b64decode(SubSeq(s, 5, Len(s)))

EncodeOutcome(validation) ==
    LET r == ret.res
    IN  IF validation.kind = "return"
        THEN /\ r.kind = "return"
             /\ Len(r.value) >= 3
             /\ SubSeq(r.value, 1, 3) =
                    <<"data:", MimeTable(lower(world.src.suffix)), ";base64,">>
             /\ b64decode(SubSeq(r.value, 4, Len(r.value))) = world.entry.data
        ELSE /\ r.kind = "raise"
             /\ r.err = validation.err /\ r.msg = validation.msg
             /\ r.value = None

\* C5: encoding a local file that passes validation returns
\* "data:<mime(e)>;base64,<payload>" with the table's MIME type of the
\* case-folded extension, and decoding the payload recovers the file's
\* bytes; encoding one that fails validation fails with validation's error.
C5_EncodeRoundTrip ==
    /\ (IsLocalCall /\ ret.op = "encode_image_to_base64") =>
           EncodeOutcome(validate_image_source(world, Settings_))
    /\ (IsLocalCall /\ ret.op = "encode_video_to_base64") =>
           EncodeOutcome(validate_video_source(world, Settings_))

\* C5's case: a video with a mixed-case extension and two bytes of content
\* (a padded last group) was encoded.
C5_Witness ==
    /\ IsLocalCall /\ ret.op = "encode_video_to_base64"
    /\ ret.res.kind = "return"
    /\ world.src.suffix = <<".","M","o","v">>
    /\ Len(world.entry.data) = 2

KeyMissing(k) == k = None \/ k = Some(<<>>)

\* C6: no call of the settings loader returns a Settings whose api_key is
\* empty or None; loading without an API key fails.
C6_NoSettingsWithoutKey ==
    (ret.op = "get_settings" /\ ret.res.kind = "return") =>
        ~KeyMissing(ret.res.value.api_key)

PlatformUrl(mode) ==
    IF mode = "ZAI" THEN <<"https://api.z.ai/api/paas/v4", "/">>
    ELSE <<"https://open.bigmodel.cn/api/paas/v4", "/">>

KeyPlatform(key) ==
    IF contains(lower(key), <<"z","h","i","p","u">>)
       \/ contains(lower(key), <<"g","l","m">>)
    THEN "ZHIPU" ELSE "ZAI"

\* C7: settings loaded with PLATFORM_MODE unset or AUTO and a non-empty API
\* key have platform_mode ZHIPU when the key contains "zhipu" or "glm"
\* (case-insensitive), ZAI otherwise, and the base_url of that platform.
C7_AutoPlatformResolved ==
    (/\ first # None
     /\ first[1].env.PLATFORM_MODE \in {None, Some("AUTO")}
     /\ ~KeyMissing(first[1].env.Z_AI_API_KEY)) =>
        LET s == first[1].value
            p == KeyPlatform(first[1].env.Z_AI_API_KEY[1])
        IN  s.platform_mode = p /\ s.base_url = PlatformUrl(p)

\* C8: after the first successful call, every call of get_settings (and
\* FileService(), which calls it) returns that same instance with the same
\* field values, whatever the environment has become, and constructs no
\* second Settings.
C8_SettingsMemoized ==
    /\ (first # None /\ ret.op \in {"get_settings", "FileService"}) =>
           /\ ret.res.kind = "return"
           /\ ret.res.value = first[1].value
    /\ first # None => created = 1 /\ cache = Some(first[1].value)
    /\ (first # None /\ svc # None) => svc[1].settings = first[1].value

\* C8's case: get_settings answered from the cache after the API key of the
\* environment was changed to one that Settings() would load.
C8_Witness ==
    /\ ret.op = "get_settings" /\ ret.res.kind = "return"
    /\ ret.res.io = {}
    /\ env.Z_AI_API_KEY # ret.res.value.api_key
    /\ SettingsNew(env, 2).kind = "return"

\* C9: every Settings the loader returns (here: with an API key, the case
\* C6 does not cover) has platform_mode ZAI or ZHIPU, never AUTO, and the
\* fixed base_url of that platform, whatever Z_AI_BASE_URL was; its
\* api_endpoint is that URL without the trailing slash, followed by
\* "/chat/completions".
C9_PlatformUrlFixed ==
    (/\ ret.op = "get_settings" /\ ret.res.kind = "return"
     /\ ~KeyMissing(ret.res.value.api_key)) =>
        LET s == ret.res.value
        IN  /\ s.platform_mode \in {"ZAI", "ZHIPU"}
            /\ s.base_url = PlatformUrl(s.platform_mode)
            /\ api_endpoint(s) =
                   IF s.platform_mode = "ZAI"
                   THEN <<"https://api.z.ai/api/paas/v4", "/chat/completions">>
                   ELSE <<"https://open.bigmodel.cn/api/paas/v4", "/chat/completions">>

\* C10: for a local file that passes validation, the content_type of
\* get_file_info equals the MIME type of the data URL the encode operation
\* of its media type returns, upper and mixed case extensions included.
C10_InfoMimeAgreesWithEncode ==
    /\ (obs.info # "none" /\ obs.image # "none") => obs.info = obs.image
    /\ (obs.info # "none" /\ obs.video # "none") => obs.info = obs.video

====
